---------------------------- MODULE Spec2Model ----------------------------
(***************************************************************************)
(* A model of the network metrics backend (package net_stats): producers   *)
(* calling Set/Add/Observe, callers of Close, the bounded job channel, the  *)
(* flush ticker and the worker goroutine run() with connect(), write(),    *)
(* flush()/flushN() and handleError().                                     *)
(*                                                                         *)
(* Durations are counted in milliseconds.  time.Duration is an int64; the  *)
(* model keeps two's-complement wrap-around at a narrower width,           *)
(* DurationBits, because TLC's integers are 32 bits wide.                  *)
(***************************************************************************)
EXTENDS Integers, Sequences, FiniteSets, TLC

\* ------------------------------------------------------------------ bounds

\* Number of Set/Add/Observe calls made over a run.
MaxJobs == 2

\* Longest encoding, in bytes, the codec produces for one job.
MaxJobLen == 2

\* Width of the modelled time.Duration (int64 in the program).
DurationBits == 16

\* ------------------------------------------------------- program constants

DefaultBufferSize == 512

DefaultQueueSize == 1000

DefaultRetryAfterMin == 100

DefaultRetryAfterMax == 15000

\* ------------------------------------------------------------------- state

VARIABLES
    config,      \* the Config after setConfigDefaults
    jobs,        \* the channel b.jobs: the queued jobs, oldest first
    closed,      \* whether close(b.jobs) has happened
    join,        \* the WaitGroup counter b.join
    submitted,   \* number of Set/Add/Observe calls made so far
    cpc,         \* position of each Close caller
    wpc,         \* position of the worker goroutine in run()/connect()
    conn,        \* run's conn: "nil" or "open"
    retryAfter,  \* connect's retryAfter
    slept,       \* the delay of the latest time.Sleep of the connect() call
                 \* under way (<<>> before its first, and outside connect)
    buf,         \* run's buf: the pending bytes, oldest first
    wire,        \* every byte a conn.Write has put on a connection, in order
    handed,      \* ids of the jobs handed to write(), in order
    fate,        \* per job: what became of its bytes
    openConns,   \* connections returned by Dial and not yet closed
    timerC,      \* whether the ticker's channel timer.C holds a tick
    last         \* the operation performed by the latest step

vars == <<config, jobs, closed, join, submitted, cpc, wpc, conn, retryAfter,
          slept, buf, wire, handed, fate, openConns, timerC, last>>

\* The producer goroutines.
Producers == {"p1", "p2"}

\* The goroutines calling Close, once each.
Closers == {"c1", "c2"}

JobIds == 1..MaxJobs

\* ------------------------------------------------------- data and helpers

Min(a, b) == IF a <= b THEN a ELSE b

\* The largest time.Duration.
MaxDuration == 2^(DurationBits - 1) - 1

\* Two's-complement wrap-around of a time.Duration.
Wrap(x) == ((x + 2^(DurationBits - 1)) % 2^DurationBits) - 2^(DurationBits - 1)

\* A job: the metric (named by id), the producer that submitted it, and the
\* length of what the codec writes for it.
Job(id, p, len) == [id |-> id, p |-> p, len |-> len]

\* The bytes the codec writes for a job: byte i of job id is <<id, i>>.
Encode(job) == [i \in 1..job.len |-> <<job.id, i>>]

\* bytes.Buffer.Next(n): the next n unread bytes (fewer when fewer are left).
Next_(b, n) == SubSeq(b, 1, Min(n, Len(b)))

\* bytes.Buffer.Next not advancing the read position.
Rest_NoAdvance(b, n) == b

\* The buffer once Next(n) has advanced its read position.
Rest(b, n) == SubSeq(b, Min(n, Len(b)) + 1, Len(b))

\* The jobs some byte of a byte sequence belongs to.
JobsOf(bytes) == {bytes[i][1] : i \in 1..Len(bytes)}

\* An error handed to the failure callback.
Err(kind, id) == [kind |-> kind, job |-> id]

setConfigDefaults(c) ==
    [BufferSize    |-> IF c.BufferSize = 0 THEN DefaultBufferSize ELSE c.BufferSize,
     QueueSize     |-> IF c.QueueSize = 0 THEN DefaultQueueSize ELSE c.QueueSize,
     RetryAfterMin |-> IF c.RetryAfterMin = 0 THEN DefaultRetryAfterMin
                                              ELSE c.RetryAfterMin,
     RetryAfterMax |-> IF c.RetryAfterMax = 0 THEN DefaultRetryAfterMax
                                              ELSE c.RetryAfterMax]

\* backoff without the cap.
backoff_NoCap(d, max) == Wrap(d + d)

backoff(d, max) ==
    LET d2 == Wrap(d + d) IN IF d2 > max THEN max ELSE d2

\* handleError without the deferred handlePanic: a panic of the callback
\* leaves handleError.
handleError_Unrecovered(err, panics) ==
    [fails |-> <<err>>, stderr |-> 0, crashed |-> panics]

\* handleError: calls config.Fail(err); a panic of the callback is recovered by
\* the deferred handlePanic, which prints it and the stack to os.Stderr.
\* crashed: whether the panic leaves handleError.
handleError(err, panics) ==
    [fails |-> <<err>>, stderr |-> IF panics THEN 1 ELSE 0, crashed |-> FALSE]

\* No call of handleError.
NoError == [fails |-> <<>>, stderr |-> 0, crashed |-> FALSE]

\* What a connection may do with a flush of at most max bytes.  dl: whether
\* SetWriteDeadline succeeds; k: the bytes conn.Write puts on the connection;
\* werr: whether conn.Write returns an error although it wrote everything.
ConnOutcomes(max) ==
    {[dl |-> FALSE, k |-> 0, werr |-> FALSE]}
        \cup {[dl |-> TRUE, k |-> k, werr |-> FALSE] : k \in 0..max}
        \cup {[dl |-> TRUE, k |-> max, werr |-> TRUE]}

\* What the codec may do with a job.  ok: whether it succeeds; k: the bytes it
\* had written into the buffer when it failed.
CodecOutcomes(job) ==
    {[ok |-> TRUE, k |-> job.len]}
        \cup {[ok |-> FALSE, k |-> k] : k \in 0..(job.len - 1)}

\* flushN dropping the handle of a failed connection without closing it.
flushN_NoClose(c, b, n, o, panics) ==
    IF c = "nil"
    THEN [conn |-> c, buf |-> b, sent |-> <<>>, taken |-> <<>>, err |-> "none",
          he |-> NoError, closes |-> 0, n |-> n]
    ELSE IF ~o.dl
    THEN [conn |-> "nil", buf |-> b, sent |-> <<>>, taken |-> <<>>,
          err |-> "deadline", he |-> handleError(Err("deadline", 0), panics),
          closes |-> 0, n |-> n]
    ELSE LET data  == Next_(b, n)
             wrote == Min(o.k, Len(data))
             bad   == o.werr \/ wrote < Len(data)
         IN  [conn |-> IF bad THEN "nil" ELSE c, buf |-> Rest(b, n),
              sent |-> SubSeq(data, 1, wrote), taken |-> data,
              err |-> IF bad THEN "write" ELSE "none",
              he |-> IF bad THEN handleError(Err("write", 0), panics)
                            ELSE NoError,
              closes |-> 0, n |-> n]

\* flushN keeping the handle of the connection it has closed.
flushN_KeepsConn(c, b, n, o, panics) ==
    IF c = "nil"
    THEN [conn |-> c, buf |-> b, sent |-> <<>>, taken |-> <<>>, err |-> "none",
          he |-> NoError, closes |-> 0, n |-> n]
    ELSE IF ~o.dl
    THEN [conn |-> c, buf |-> b, sent |-> <<>>, taken |-> <<>>,
          err |-> "deadline", he |-> handleError(Err("deadline", 0), panics),
          closes |-> 1, n |-> n]
    ELSE LET data  == Next_(b, n)
             wrote == Min(o.k, Len(data))
             bad   == o.werr \/ wrote < Len(data)
         IN  [conn |-> c, buf |-> Rest(b, n),
              sent |-> SubSeq(data, 1, wrote), taken |-> data,
              err |-> IF bad THEN "write" ELSE "none",
              he |-> IF bad THEN handleError(Err("write", 0), panics)
                            ELSE NoError,
              closes |-> IF bad THEN 1 ELSE 0, n |-> n]

\* flushN without the report of a failed write.
flushN_Silent(c, b, n, o, panics) ==
    IF c = "nil"
    THEN [conn |-> c, buf |-> b, sent |-> <<>>, taken |-> <<>>, err |-> "none",
          he |-> NoError, closes |-> 0, n |-> n]
    ELSE IF ~o.dl
    THEN [conn |-> "nil", buf |-> b, sent |-> <<>>, taken |-> <<>>,
          err |-> "deadline", he |-> handleError(Err("deadline", 0), panics),
          closes |-> 1, n |-> n]
    ELSE LET data  == Next_(b, n)
             wrote == Min(o.k, Len(data))
             bad   == o.werr \/ wrote < Len(data)
         IN  [conn |-> IF bad THEN "nil" ELSE c, buf |-> Rest(b, n),
              sent |-> SubSeq(data, 1, wrote), taken |-> data,
              err |-> IF bad THEN "write" ELSE "none", he |-> NoError,
              closes |-> IF bad THEN 1 ELSE 0, n |-> n]

\* flushN(conn, buf, config, n).  o: what the connection does (conn.Write
\* returns an error whenever it wrote fewer bytes than given); panics: whether
\* the failure callback panics.
flushN(c, b, n, o, panics) ==
    IF c = "nil"
    THEN [conn |-> c, buf |-> b, sent |-> <<>>, taken |-> <<>>, err |-> "none",
          he |-> NoError, closes |-> 0, n |-> n]
    ELSE IF ~o.dl
    THEN [conn |-> "nil", buf |-> b, sent |-> <<>>, taken |-> <<>>,
          err |-> "deadline", he |-> handleError(Err("deadline", 0), panics),
          closes |-> 1, n |-> n]
    ELSE LET data  == Next_(b, n)
             wrote == Min(o.k, Len(data))
             bad   == o.werr \/ wrote < Len(data)
         IN  [conn   |-> IF bad THEN "nil" ELSE c,
              buf    |-> Rest(b, n),
              sent   |-> SubSeq(data, 1, wrote),
              taken  |-> data,
              err    |-> IF bad THEN "write" ELSE "none",
              he     |-> IF bad THEN handleError(Err("write", 0), panics)
                                ELSE NoError,
              closes |-> IF bad THEN 1 ELSE 0,
              n      |-> n]

\* flush leaving a buffer that is below BufferSize alone.
flush_OnlyFull(c, b, o, panics) ==
    IF Len(b) >= config.BufferSize
    THEN flushN(c, b, Len(b), o, panics)
    ELSE [conn |-> c, buf |-> b, sent |-> <<>>, taken |-> <<>>, err |-> "none",
          he |-> NoError, closes |-> 0, n |-> 0]

flush(c, b, o, panics) == flushN(c, b, Len(b), o, panics)

\* write flushing only when the buffer was empty before the encode.
write_FlushOnlyFromEmpty(c, b, job, bufferSize, enc, o, panics) ==
    IF ~enc.ok
    THEN [conn |-> c, buf |-> b \o SubSeq(Encode(job), 1, enc.k), sent |-> <<>>,
          taken |-> <<>>, err |-> "codec",
          he |-> handleError(Err("codec", job.id), panics), closes |-> 0,
          n |-> -1]
    ELSE LET b2 == b \o Encode(job)
         IN  IF Len(b2) >= bufferSize /\ Len(b) = 0
             THEN flushN(c, b2, Len(b2), o, panics)
             ELSE [conn |-> c, buf |-> b2, sent |-> <<>>, taken |-> <<>>,
                   err |-> "none", he |-> NoError, closes |-> 0, n |-> -1]

\* write without the return after a codec error: it goes on to the flush.
write_FlushOnCodecError(c, b, job, bufferSize, enc, o, panics) ==
    LET n1 == Len(b)
        b2 == b \o SubSeq(Encode(job), 1, enc.k)
        n2 == Len(b2)
        he == IF enc.ok THEN NoError
                        ELSE handleError(Err("codec", job.id), panics)
    IN  IF n2 >= bufferSize
        THEN LET r == flushN(c, b2, IF n1 = 0 THEN n2 ELSE n1, o, panics)
             IN  [r EXCEPT !.he = [fails   |-> he.fails \o r.he.fails,
                                   stderr  |-> IF panics THEN 1 ELSE 0,
                                   crashed |-> FALSE]]
        ELSE [conn |-> c, buf |-> b2, sent |-> <<>>, taken |-> <<>>,
              err |-> IF enc.ok THEN "none" ELSE "codec", he |-> he,
              closes |-> 0, n |-> -1]

\* write flushing the whole buffer whenever it flushes.
write_FlushAll(c, b, job, bufferSize, enc, o, panics) ==
    IF ~enc.ok
    THEN [conn |-> c, buf |-> b \o SubSeq(Encode(job), 1, enc.k), sent |-> <<>>,
          taken |-> <<>>, err |-> "codec",
          he |-> handleError(Err("codec", job.id), panics), closes |-> 0,
          n |-> -1]
    ELSE LET b2 == b \o Encode(job)
         IN  IF Len(b2) >= bufferSize
             THEN flushN(c, b2, Len(b2), o, panics)
             ELSE [conn |-> c, buf |-> b2, sent |-> <<>>, taken |-> <<>>,
                   err |-> "none", he |-> NoError, closes |-> 0, n |-> -1]

\* write(conn, buf, job, config).  enc: what the codec does; o: what the
\* connection does.
write(c, b, job, bufferSize, enc, o, panics) ==
    LET n1 == Len(b) IN
    IF ~enc.ok
    THEN [conn |-> c, buf |-> b \o SubSeq(Encode(job), 1, enc.k), sent |-> <<>>,
          taken |-> <<>>, err |-> "codec",
          he |-> handleError(Err("codec", job.id), panics), closes |-> 0,
          n |-> -1]
    ELSE LET b2 == b \o Encode(job)
             n2 == Len(b2)
         IN  IF n2 >= bufferSize
             THEN flushN(c, b2, IF n1 = 0 THEN n2 ELSE n1, o, panics)
             ELSE [conn |-> c, buf |-> b2, sent |-> <<>>, taken |-> <<>>,
                   err |-> "none", he |-> NoError, closes |-> 0, n |-> -1]

\* enqueue putting the job at the front of the queue.
enqueue_Lifo(job, q, isClosed, queueSize, p1, p2) ==
    IF ~isClosed /\ Len(q) < queueSize
    THEN [jobs |-> <<job>> \o q, accepted |-> TRUE, fails |-> <<>>,
          outcome |-> "returned"]
    ELSE [jobs |-> q, accepted |-> FALSE,
          fails |-> <<Err(IF isClosed THEN "closed" ELSE "full", job.id)>>,
          outcome |-> IF p1 THEN "panic" ELSE "returned"]

\* enqueue(job, jobs, fail): the select's send, its default branch, and the
\* deferred recover.  p1, p2: the first, the second call of fail panics.
enqueue(job, q, isClosed, queueSize, p1, p2) ==
    IF isClosed
    THEN \* the send panics; the deferred function recovers it and calls fail
         [jobs |-> q, accepted |-> FALSE,
          fails |-> <<Err("closed", job.id)>>,
          outcome |-> IF p1 THEN "panic" ELSE "returned"]
    ELSE IF Len(q) < queueSize
    THEN [jobs |-> Append(q, job), accepted |-> TRUE, fails |-> <<>>,
          outcome |-> "returned"]
    ELSE IF ~p1
    THEN [jobs |-> q, accepted |-> FALSE, fails |-> <<Err("full", job.id)>>,
          outcome |-> "returned"]
    ELSE \* fail panicked in the default branch: the deferred function
         \* recovers that panic and calls fail again
         [jobs |-> q, accepted |-> FALSE,
          fails |-> <<Err("full", job.id), Err("closed", job.id)>>,
          outcome |-> IF p2 THEN "panic" ELSE "returned"]

\* ----------------------------------------------------------- bookkeeping

\* The record kept in last: the operation ("other" for one that never calls
\* the callback), the errors it handed to the failure callback, the panics
\* printed to os.Stderr, and how the call ended for its caller.
Op(op, he, outcome) ==
    [op |-> op, fails |-> he.fails, stderr |-> he.stderr, outcome |-> outcome]

\* The record kept in last for a call of write: as Op, with the producer of
\* the job the select received.
OpWrite(job, he) ==
    [op |-> "write", fails |-> he.fails, stderr |-> he.stderr,
     outcome |-> "returned", p |-> job.p]

\* The fates after a call of write or flush with result r: the jobs whose
\* bytes bytes.Buffer.Next handed to conn.Write are flushed when the write
\* succeeded, dropped when it failed.
AfterFlush(f, r) ==
    [j \in JobIds |->
        IF f[j] = "buffered" /\ j \in JobsOf(r.taken)
        THEN IF r.err = "none" THEN "flushed" ELSE "dropped"
        ELSE f[j]]

\* run's loop without the call of connect() at its top.
LoopTop_NoReconnect(c, he) == IF he.crashed THEN "crashed" ELSE "select"

\* Where run's loop goes after an event: connect() when conn is nil.
LoopTop(c, he) == IF he.crashed THEN "crashed" ELSE IF c = "nil" THEN "loop" ELSE "select"

\* -------------------------------------------------------------- the start

\* NewBackendWith: the defaults are applied, the channel is empty and open,
\* join.Add(1) is done and the worker is at the top of run's loop with no
\* connection and an empty buffer.
InitWith(raw) ==
    /\ config = setConfigDefaults(raw)
    /\ jobs = <<>>
    /\ closed = FALSE
    /\ join = 1
    /\ submitted = 0
    /\ cpc = [c \in Closers |-> "idle"]
    /\ wpc = "loop"
    /\ conn = "nil"
    /\ retryAfter = 0
    /\ slept = <<>>
    /\ buf = <<>>
    /\ wire = <<>>
    /\ handed = <<>>
    /\ fate = [j \in JobIds |-> "none"]
    /\ openConns = 0
    /\ timerC = FALSE
    /\ last = Op("other", NoError, "returned")

\* The configurations of the main specification.
MainConfigs ==
    {[BufferSize |-> 2, QueueSize |-> q, RetryAfterMin |-> 1, RetryAfterMax |-> 2] :
        q \in {1, 2}}

Init == \E raw \in MainConfigs : InitWith(raw)

\* --------------------------------------------------------------- producers

\* b.Set, b.Add, b.Observe: all three are b.enqueue with the kind's writer.
Enqueue(p) ==
    /\ submitted < MaxJobs
    /\ \E len \in 1..MaxJobLen, p1 \in BOOLEAN, p2 \in BOOLEAN :
          LET job == Job(submitted + 1, p, len)
              r   == enqueue(job, jobs, closed, config.QueueSize, p1, p2)
          IN  /\ jobs' = r.jobs
              /\ fate' = IF r.accepted THEN [fate EXCEPT ![job.id] = "queued"]
                                       ELSE fate
              /\ last' = [op |-> "enqueue", fails |-> r.fails, stderr |-> 0,
                          outcome |-> r.outcome]
    /\ submitted' = submitted + 1
    /\ UNCHANGED <<config, closed, join, cpc, wpc, conn, retryAfter, slept,
                   buf, wire, handed, openConns, timerC>>

\* b.Close without its deferred recover.
recoverClose_Missing(panicking) == panicking

\* close(b.jobs): closing a channel that is closed already panics.
closeChan(isClosed) == [closed |-> TRUE, panics |-> isClosed]

\* b.Close's deferred func() { recover() }(): whether a panic of close(b.jobs)
\* is still under way after it.
recoverClose(panicking) == FALSE

\* b.Close up to join.Wait: close(b.jobs), then the deferred recover.
CloseCall(c) ==
    /\ cpc[c] = "idle"
    /\ LET r == closeChan(closed) IN
          /\ closed' = r.closed
          /\ cpc' = [cpc EXCEPT ![c] = IF recoverClose(r.panics) THEN "unwind"
                                                                 ELSE "wait"]
    /\ last' = Op("other", NoError, "returned")
    /\ UNCHANGED <<config, jobs, join, submitted, wpc, conn, retryAfter, slept,
                   buf, wire, handed, fate, openConns, timerC>>

\* b.Close: the deferred join.Wait() returns once the counter is zero; Close
\* then returns, or the panic still under way reaches its caller.
CloseReturn(c) ==
    /\ cpc[c] \in {"wait", "unwind"}
    /\ join = 0
    /\ cpc' = [cpc EXCEPT ![c] = IF cpc[c] = "wait" THEN "returned"
                                                    ELSE "panicked"]
    /\ last' = Op("other", NoError, "returned")
    /\ UNCHANGED <<config, jobs, closed, join, submitted, wpc, conn,
                   retryAfter, slept, buf, wire, handed, fate, openConns,
                   timerC>>

\* -------------------------------------------------------------- the worker

\* run: conn == nil at the top of the loop, so connect() is called and sets
\* retryAfter := config.RetryAfterMin.
Connect ==
    /\ wpc = "loop"
    /\ conn = "nil"
    /\ retryAfter' = config.RetryAfterMin
    /\ slept' = <<>>
    /\ wpc' = "dial"
    /\ last' = Op("other", NoError, "returned")
    /\ UNCHANGED <<config, jobs, closed, join, submitted, cpc, conn, buf, wire,
                   handed, fate, openConns, timerC>>

\* dial(config).  ok: whether config.Dial succeeds; a failure is reported
\* through handleError and leaves conn nil.
dial(ok, panics) ==
    [conn |-> IF ok THEN "open" ELSE "nil",
     he   |-> IF ok THEN NoError ELSE handleError(Err("dial", 0), panics)]

\* connect: one dial(config); retryAfter and the sleeps end with the call.
Dial ==
    /\ wpc = "dial"
    /\ \E ok \in BOOLEAN, panics \in BOOLEAN :
          LET r == dial(ok, panics)
          IN  /\ conn' = r.conn
              /\ openConns' = IF ok THEN openConns + 1 ELSE openConns
              /\ wpc' = IF r.he.crashed THEN "crashed"
                        ELSE IF r.conn # "nil" THEN "select" ELSE "sleep"
              /\ retryAfter' = IF r.conn # "nil" THEN 0 ELSE retryAfter
              /\ slept' = IF r.conn # "nil" THEN <<>> ELSE slept
              /\ last' = Op("dial", r.he, "returned")
    /\ UNCHANGED <<config, jobs, closed, join, submitted, cpc, buf, wire,
                   handed, fate, timerC>>

\* connect: retryAfter = sleep(retryAfter, config.RetryAfterMax).
Sleep ==
    /\ wpc = "sleep"
    /\ slept' = <<retryAfter>>
    /\ retryAfter' = backoff(retryAfter, config.RetryAfterMax)
    /\ wpc' = "dial"
    /\ last' = Op("other", NoError, "returned")
    /\ UNCHANGED <<config, jobs, closed, join, submitted, cpc, conn, buf, wire,
                   handed, fate, openConns, timerC>>

\* The ticker of time.NewTicker(config.FlushTimeout): every FlushTimeout it
\* sends a tick on timer.C, a channel of capacity one, and drops the tick when
\* the channel still holds one.  It runs until run's deferred timer.Stop().
TimerFires ==
    /\ wpc \notin {"done", "crashed"}
    /\ timerC' = TRUE
    /\ last' = Op("other", NoError, "returned")
    /\ UNCHANGED <<config, jobs, closed, join, submitted, cpc, wpc, conn,
                   retryAfter, slept, buf, wire, handed, fate, openConns>>

\* run: the select receives a job and calls write.
TakeJob ==
    /\ wpc = "select"
    /\ jobs # <<>>
    /\ LET job == Head(jobs) IN
       \E enc \in CodecOutcomes(job), o \in ConnOutcomes(Len(buf) + job.len),
          panics \in BOOLEAN :
          LET r == write(conn, buf, job, config.BufferSize, enc, o, panics)
          IN  /\ jobs' = Tail(jobs)
              /\ handed' = Append(handed, job.id)
              /\ conn' = r.conn
              /\ buf' = r.buf
              /\ wire' = wire \o r.sent
              /\ openConns' = openConns - r.closes
              /\ fate' = AfterFlush([fate EXCEPT ![job.id] =
                                        IF enc.ok THEN "buffered" ELSE "dropped"], r)
              /\ wpc' = LoopTop(r.conn, r.he)
              /\ last' = OpWrite(job, r.he)
    /\ UNCHANGED <<config, closed, join, submitted, cpc, retryAfter, slept,
                   timerC>>

\* run: the select receives the tick from timer.C and calls flush.
TimerTick ==
    /\ wpc = "select"
    /\ timerC
    /\ timerC' = FALSE
    /\ \E o \in ConnOutcomes(Len(buf)), panics \in BOOLEAN :
          LET r == flush(conn, buf, o, panics)
          IN  /\ conn' = r.conn
              /\ buf' = r.buf
              /\ wire' = wire \o r.sent
              /\ openConns' = openConns - r.closes
              /\ fate' = AfterFlush(fate, r)
              /\ wpc' = LoopTop(r.conn, r.he)
              /\ last' = Op("tick", r.he, "returned")
    /\ UNCHANGED <<config, jobs, closed, join, submitted, cpc, retryAfter, slept,
                   handed>>

\* run without the deferred join.Done().
deferred_NoDone(c, j) == [closes |-> IF c # "nil" THEN 1 ELSE 0, join |-> j]

\* run without the deferred conn.Close().
deferred_KeepsConn(c, j) == [closes |-> 0, join |-> j - 1]

\* run's deferred calls at its return: conn.Close() when conn is not nil
\* (timer.Stop() has no effect here), then join.Done().
deferred(c, j) == [closes |-> IF c # "nil" THEN 1 ELSE 0, join |-> j - 1]

\* run: the select finds the channel closed and empty: the final flush, then
\* return, which runs the deferred timer.Stop(), conn.Close() (when conn is not
\* nil) and join.Done().  conn is "nil" and timer.C empty afterwards: run's
\* frame is gone.
ObserveClosed ==
    /\ wpc = "select"
    /\ jobs = <<>>
    /\ closed
    /\ \E o \in ConnOutcomes(Len(buf)), panics \in BOOLEAN :
          LET r == flush(conn, buf, o, panics)
              f == AfterFlush(fate, r)
              d == deferred(r.conn, join)
          IN  /\ buf' = r.buf
              /\ wire' = wire \o r.sent
              /\ fate' = [j \in JobIds |->
                            IF f[j] = "buffered" THEN "stranded" ELSE f[j]]
              /\ IF r.he.crashed
                 THEN /\ wpc' = "crashed"
                      /\ conn' = r.conn
                      /\ openConns' = openConns - r.closes
                      /\ join' = join
                 ELSE /\ wpc' = "done"
                      /\ conn' = "nil"
                      /\ openConns' = openConns - r.closes - d.closes
                      /\ join' = d.join
              /\ last' = Op("final", r.he, "returned")
    /\ timerC' = FALSE
    /\ UNCHANGED <<config, jobs, closed, submitted, cpc, retryAfter, slept,
                   handed>>

Next ==
    \/ \E p \in Producers : Enqueue(p)
    \/ \E c \in Closers : CloseCall(c)
    \/ \E c \in Closers : CloseReturn(c)
    \/ Connect
    \/ Dial
    \/ Sleep
    \/ TimerFires
    \/ TakeJob
    \/ TimerTick
    \/ ObserveClosed

Spec == Init /\ [][Next]_vars

\* The configurations of the backoff specification: the minimum and the
\* maximum left unset (0), below and above each other, and near the largest
\* Duration.
BackoffConfigs ==
    {[BufferSize |-> 2, QueueSize |-> 2, RetryAfterMin |-> lo, RetryAfterMax |-> hi] :
        lo \in {0, 1, 3, 5, MaxDuration \div 2 + 1},
        hi \in {0, 1, 4, 50, MaxDuration \div 2, MaxDuration}}

InitBackoff == \E raw \in BackoffConfigs : InitWith(raw)

\* The worker and the callers of Close, with no producer calling.
NextBackoff ==
    \/ \E c \in Closers : CloseCall(c)
    \/ \E c \in Closers : CloseReturn(c)
    \/ Connect
    \/ Dial
    \/ Sleep
    \/ TimerFires
    \/ TimerTick
    \/ ObserveClosed

SpecBackoff == InitBackoff /\ [][NextBackoff]_vars

\* The scheduling the program relies on.  The worker goroutine runs whenever
\* it can.  The ticker fires once per FlushTimeout.  The worker's select picks
\* among the ready cases at random, so a case that is ready again and again
\* is taken in the end.  A goroutine blocked in join.Wait() is woken when the
\* counter is zero.  Nothing is assumed of the producers, of the callers of
\* Close, of Dial, of the connection, of the codec or of the callback.
Fairness ==
    /\ WF_vars(Connect)
    /\ WF_vars(Dial)
    /\ WF_vars(Sleep)
    /\ WF_vars(TimerFires)
    /\ SF_vars(TakeJob)
    /\ SF_vars(TimerTick)
    /\ SF_vars(ObserveClosed)
    /\ \A c \in Closers : WF_vars(CloseReturn(c))

\* The configuration of the fair specification.
FairConfigs ==
    {[BufferSize |-> 2, QueueSize |-> 2, RetryAfterMin |-> 1, RetryAfterMax |-> 2]}

InitFair == \E raw \in FairConfigs : InitWith(raw)

FairSpec == InitFair /\ [][Next]_vars /\ Fairness

\* ------------------------------------------------------- shared vocabulary

\* The jobs the queue has accepted so far.
Accepted == {j \in JobIds : fate[j] # "none"}

\* The jobs whose bytes a successful flush has written.
Flushed == {j \in JobIds : fate[j] = "flushed"}

\* The jobs the worker has given up: the codec failed, or the flush that took
\* their bytes from the buffer failed, or they were still in the buffer when
\* the worker returned after a failed final flush.
Dropped == {j \in JobIds : fate[j] \in {"dropped", "stranded"}}

\* The kinds of the errors the latest step handed to the failure callback.
Kinds(l) == [i \in 1..Len(l.fails) |-> l.fails[i].kind]

\* The worker is at one of the positions of run() and connect().
WorkerRuns == wpc \in {"loop", "dial", "sleep", "select", "done"}

\* The worker is inside connect().
InConnect == wpc \in {"dial", "sleep"}

\* The latest step was a timer flush on which SetWriteDeadline succeeded.
TickPastDeadline == last.op = "tick" /\ Kinds(last) # <<"deadline">>

\* Connectivity is not down for good: the worker is not inside one connect()
\* call for ever, and (until the worker has returned) SetWriteDeadline does
\* not fail on every timer flush for ever.
ConnectivityReturns ==
    /\ []<>(~InConnect)
    /\ []<>(wpc = "done" \/ TickPastDeadline)

\* ------------------------------------------------------------------ C1

\* The bytes on the wire belong to accepted jobs, and every byte of a flushed
\* job is on the wire.
WireIsSound ==
    /\ JobsOf(wire) \subseteq Accepted
    /\ \A j \in Flushed : \E i \in 1..Len(wire) : wire[i] = <<j, 1>>

\* A step that drops jobs reports exactly one failure.
DropIsReported ==
    (\E j \in JobIds : fate[j] \notin {"dropped", "stranded"}
                        /\ fate'[j] \in {"dropped", "stranded"})
        => Len(last'.fails) = 1

\* Every accepted job is eventually flushed or dropped.  (A job stays flushed
\* or dropped once it is, and the jobs of a run are finitely many, so this is
\* that from some time on every accepted job is flushed or dropped.)
EveryJobSettles == <>[](Accepted \subseteq Flushed \cup Dropped)

\* C1 as claimed: every accepted job is eventually flushed to the connection
\* or dropped with a reported failure, whatever Dial and the connection do.
C1_Original == EveryJobSettles /\ []WireIsSound

\* C1, amended: provided connectivity is not down for good, every accepted
\* job is eventually either flushed to the connection or dropped; every step
\* that drops jobs reports exactly one failure; only bytes of accepted jobs
\* are written, and the bytes of a flushed job are on the wire.
C1_Amended ==
    /\ ConnectivityReturns => EveryJobSettles
    /\ []WireIsSound
    /\ [][DropIsReported]_vars

\* C1's case: one job was flushed and another was dropped by a failed write.
C1_Witness ==
    /\ Flushed # {}
    /\ \E j \in JobIds : fate[j] = "dropped" /\ j \in JobsOf(wire)

\* ------------------------------------------------------------------ C2

\* The latest step was a flush that failed.
FlushFailed(l) ==
    /\ l.op \in {"write", "tick", "final"}
    /\ Kinds(l) \in {<<"deadline">>, <<"write">>}

\* C2 as claimed: a flush that fails closes and discards the connection,
\* reports the error once and leaves the buffer as it was (with the job just
\* encoded, when write called it), so the bytes are written again later.
C2_Original ==
    [][FlushFailed(last') =>
          /\ conn' = "nil"
          /\ openConns' = openConns - 1
          /\ Len(last'.fails) = 1
          /\ buf' = IF last'.op = "write" THEN buf \o Encode(Head(jobs))
                                          ELSE buf]_vars

\* ------------------------------------------------------------------ C3

\* Every call of Close eventually returns.  (A caller that has returned stays
\* so, so this is that from some time on no caller is inside Close.)
EveryCloseReturns == <>[](\A c \in Closers : cpc[c] \in {"idle", "returned"})

\* C3 as claimed: every call of Close eventually returns, whatever Dial and
\* the connection do.
C3_Original == EveryCloseReturns /\ []WorkerRuns

\* The worker has returned only after the queue was closed and drained, and
\* then the WaitGroup is released and no connection is open.
ExitIsClosure ==
    /\ wpc # "crashed"
    /\ wpc = "done" => closed /\ jobs = <<>> /\ join = 0 /\ openConns = 0

\* The step in which the worker returns is the final flush of the whole
\* buffer: the buffer is taken whole, or SetWriteDeadline failed.
ExitStep ==
    (wpc # "done" /\ wpc' = "done") =>
        /\ last'.op = "final"
        /\ closed /\ jobs = <<>>
        /\ buf' = <<>> \/ Kinds(last') = <<"deadline">>

\* C3, amended: every call of Close, the first and the later ones, eventually
\* returns provided the worker is not inside one connect() call for ever
\* (writes may fail as they like); the worker terminates in no other way than
\* by finding the queue closed and drained, doing the final full flush and
\* closing the connection.
C3_Amended ==
    /\ ([]<>(~InConnect)) => EveryCloseReturns
    /\ []ExitIsClosure
    /\ [][ExitStep]_vars

\* C3's case: every caller of Close has returned, after jobs had been queued.
C3_Witness ==
    /\ \A c \in Closers : cpc[c] = "returned"
    /\ handed # <<>>

\* ------------------------------------------------------------------ C4

\* handed holds every accepted job once, in queue order (ids grow with the
\* order of submission).
HandedAllInOrder ==
    /\ {handed[i] : i \in 1..Len(handed)} = Accepted
    /\ \A i \in 1..Len(handed), k \in 1..Len(handed) :
          i < k => handed[i] < handed[k]

CloseReturned == \E c \in Closers : cpc[c] = "returned"

AfterClose ==
    CloseReturned =>
        /\ wpc = "done"
        /\ jobs = <<>>
        /\ HandedAllInOrder
        /\ \A j \in Accepted : fate[j] \in {"flushed", "dropped", "stranded"}
        /\ conn = "nil"
        /\ openConns = 0

\* The worker returns in the step of the final flush, made after the last job
\* was handed to write, and that flush covers the whole buffer.
FinalFlushStep ==
    (join = 1 /\ join' = 0) =>
        /\ last'.op = "final"
        /\ handed' = handed /\ jobs = <<>>
        /\ wire' = wire \o buf \/ Len(last'.fails) = 1

\* C4: whenever a call of Close has returned, the worker has terminated,
\* every accepted job was handed to write() exactly once and in queue order,
\* the final flush of the whole buffer was attempted after the last job, and
\* no connection is open.
C4_Theorem ==
    /\ []AfterClose
    /\ [][FinalFlushStep]_vars

\* C4's case: Close has returned after two jobs were drained and written.
C4_Witness ==
    /\ CloseReturned
    /\ Len(handed) >= 2
    /\ Flushed # {}

\* ------------------------------------------------------------------ C5

\* The step is a call of Set, Add or Observe.
IsEnqueue == submitted' = submitted + 1

\* C5 as claimed, for a queue that is full and not closed: the call returns,
\* the queue is unchanged and the callback is invoked exactly once, with the
\* "queue is full" error naming the metric.
C5_Original ==
    [][(IsEnqueue /\ ~closed /\ Len(jobs) = config.QueueSize) =>
          /\ jobs' = jobs
          /\ last'.outcome = "returned"
          /\ last'.fails = <<Err("full", submitted')>>]_vars

\* ------------------------------------------------------------------ C6

\* C6 as claimed: a call made after the queue was closed returns, adds no job
\* and invokes the callback exactly once, with the "queue was closed" error
\* naming the metric.
C6_Original ==
    [][(IsEnqueue /\ closed) =>
          /\ jobs' = jobs
          /\ last'.outcome = "returned"
          /\ last'.fails = <<Err("closed", submitted')>>]_vars

\* ------------------------------------------------------------------ C7

\* No caller of Close crashes, and none returns before the worker has.
ClosersAreSafe ==
    \A c \in Closers :
        /\ cpc[c] \notin {"unwind", "panicked"}
        /\ cpc[c] = "returned" => wpc = "done" /\ join = 0

\* A call of Close on a closed queue changes neither the queue nor the worker.
LaterCloseIsNoOp ==
    (closed /\ \E c \in Closers : cpc[c] = "idle" /\ cpc'[c] # "idle") =>
        UNCHANGED <<jobs, closed, join, wpc, conn, buf, wire, handed, fate,
                    openConns, retryAfter, slept>>

\* C7: calling Close more than once, one call after the other or at the same
\* time, never crashes a caller; only the first call closes the queue, the
\* later ones change nothing in the queue or the worker, and every call
\* returns only after the worker has terminated.
C7_Theorem ==
    /\ []ClosersAreSafe
    /\ [][LaterCloseIsNoOp]_vars

\* C7's case: two calls of Close have both returned.
C7_Witness ==
    /\ closed
    /\ Cardinality({c \in Closers : cpc[c] = "returned"}) >= 2

\* ------------------------------------------------------------------ C8

\* C8 as claimed: Set, Add and Observe return normally to their caller, also
\* when the failure callback panics while reporting the drop.
C8_Original == last.op = "enqueue" => last.outcome = "returned"

\* ------------------------------------------------------------------ C9

\* The worker's part of the state.
workerVars == <<jobs, join, wpc, conn, buf, wire, handed, fate, openConns,
                retryAfter, slept>>

\* The step is what the worker's operation does when the callback returns
\* normally, for some behaviour of the codec and the connection.
AsWithoutPanic ==
    CASE last'.op = "dial" ->
            LET r == dial(FALSE, FALSE) IN
               /\ last'.fails = r.he.fails
               /\ conn' = r.conn /\ wpc' = "sleep"
               /\ UNCHANGED <<jobs, join, buf, wire, handed, fate, openConns,
                              retryAfter, slept>>
      [] last'.op = "write" ->
            \E enc \in CodecOutcomes(Head(jobs)),
               o \in ConnOutcomes(Len(buf) + Head(jobs).len) :
               LET r == write(conn, buf, Head(jobs), config.BufferSize, enc, o,
                              FALSE) IN
               /\ last'.fails = r.he.fails
               /\ conn' = r.conn /\ buf' = r.buf /\ wire' = wire \o r.sent
               /\ wpc' = LoopTop(r.conn, r.he)
               /\ jobs' = Tail(jobs)
               /\ UNCHANGED <<join, retryAfter, slept>>
      [] last'.op = "tick" ->
            \E o \in ConnOutcomes(Len(buf)) :
               LET r == flush(conn, buf, o, FALSE) IN
               /\ last'.fails = r.he.fails
               /\ conn' = r.conn /\ buf' = r.buf /\ wire' = wire \o r.sent
               /\ wpc' = LoopTop(r.conn, r.he)
               /\ UNCHANGED <<jobs, join, handed, retryAfter, slept>>
      [] last'.op = "final" ->
            \E o \in ConnOutcomes(Len(buf)) :
               LET r == flush(conn, buf, o, FALSE) IN
               /\ last'.fails = r.he.fails
               /\ buf' = r.buf /\ wire' = wire \o r.sent
               /\ wpc' = "done" /\ join' = 0 /\ openConns' = 0
               /\ UNCHANGED <<jobs, handed, retryAfter, slept>>
      [] OTHER -> FALSE

\* C9: a panic of the failure callback while the worker reports a dial, codec
\* or write error never ends the worker: the panic is recovered and printed,
\* and the worker goes on with the buffer and connection it would have had if
\* the callback had returned normally.
C9_Theorem ==
    /\ []WorkerRuns
    /\ [][(last'.stderr = 1 /\ last' # last) => AsWithoutPanic]_vars

\* C9's case: the callback panicked on a write error and the worker is back
\* at the top of its loop, about to reconnect.
C9_Witness ==
    /\ last.stderr = 1
    /\ Kinds(last) = <<"write">>
    /\ wpc = "loop"

\* ------------------------------------------------------------------ C10

\* The delay of a time.Sleep step: RetryAfterMin for the first of a connect()
\* call, then twice the one before, capped at RetryAfterMax; never more than
\* RetryAfterMax.
SleepsBackOff ==
    (wpc = "sleep" /\ wpc' = "dial") =>
        LET d == slept'[1] IN
        /\ slept = <<>> => d = config.RetryAfterMin
        /\ slept # <<>> => d = Min(2 * slept[1], config.RetryAfterMax)
        /\ d <= config.RetryAfterMax

\* The minimum is positive and not above the maximum, and doubling a delay
\* that is within the maximum does not overflow a Duration.
BackoffConfigured ==
    /\ 0 < config.RetryAfterMin
    /\ config.RetryAfterMin <= config.RetryAfterMax
    /\ config.RetryAfterMax <= MaxDuration \div 2

\* C10 as claimed: for every configured minimum and maximum.
C10_Original == [][SleepsBackOff]_vars

\* C10, amended: when 0 < RetryAfterMin <= RetryAfterMax <= half the largest
\* Duration (after the defaults), the delays slept within a connect() call
\* are RetryAfterMin, then twice the previous one capped at RetryAfterMax,
\* none exceeds RetryAfterMax, and every connect() call starts at
\* RetryAfterMin.
C10_Amended == [][BackoffConfigured => SleepsBackOff]_vars

\* C10's case: the doubling went past the maximum and the worker has slept the
\* maximum.
C10_Witness ==
    /\ BackoffConfigured
    /\ config.RetryAfterMin < config.RetryAfterMax
    /\ 2 * config.RetryAfterMin # config.RetryAfterMax
    /\ slept = <<config.RetryAfterMax>>
    /\ retryAfter = config.RetryAfterMax

\* ------------------------------------------------------------------ C11

\* The step is the worker taking the next job of the queue and calling write.
IsWrite == Len(handed') = Len(handed) + 1

\* s is a prefix of t.
IsPrefix(s, t) == Len(s) <= Len(t) /\ s = SubSeq(t, 1, Len(s))

\* The bytes the step has put on the connection.
Written == SubSeq(wire', Len(wire) + 1, Len(wire'))

\* The step makes no flush: nothing leaves the buffer, nothing is written and
\* nothing is reported.
NoFlush ==
    /\ Written = <<>>
    /\ conn' = conn
    /\ last'.fails = <<>>

\* The step makes one flush, of exactly the bytes data, with rest behind them
\* in the buffer: conn.Write is given data, which leaves the buffer, and rest
\* stays pending; it has written all of data unless it is reported to have
\* failed.  (When SetWriteDeadline fails before conn.Write is called, nothing
\* is written and nothing leaves the buffer.)
FlushOf(data, rest) ==
    IF Kinds(last') = <<"deadline">>
    THEN buf' = data \o rest /\ Written = <<>>
    ELSE /\ buf' = rest
         /\ IsPrefix(Written, data)
         /\ last'.fails = <<>> => Written = data /\ conn' = conn
         /\ last'.fails # <<>> => Kinds(last') = <<"write">>

FlushLengthRule ==
    (IsWrite /\ Kinds(last') # <<"codec">>) =>
        LET encoded == Encode(Head(jobs))
            before  == Len(buf)
            after   == Len(buf \o encoded)
        IN  /\ after < config.BufferSize =>
                  NoFlush /\ buf' = buf \o encoded
            /\ (after >= config.BufferSize /\ before = 0) =>
                  FlushOf(buf \o encoded, <<>>)
            /\ (after >= config.BufferSize /\ before > 0) =>
                  FlushOf(buf, encoded)

\* C11: a write(job) whose encode succeeds chooses its flush from the buffer
\* length before and after the encode: below BufferSize after it, nothing is
\* flushed; at or above BufferSize with the buffer empty before, the whole
\* buffer is flushed at once; at or above BufferSize with bytes pending
\* before, exactly those earlier bytes are flushed and the job's own bytes
\* stay pending.
C11_Theorem == [][FlushLengthRule]_vars

\* C11's case: a write found bytes pending, crossed BufferSize, flushed the
\* earlier bytes and kept the job's own, which alone reach BufferSize.
C11_Witness ==
    /\ last.op = "write" /\ last.fails = <<>>
    /\ Len(buf) >= config.BufferSize
    /\ JobsOf(buf) = {handed[Len(handed)]}
    /\ wire # <<>> /\ JobsOf(wire) \cap JobsOf(buf) = {}

\* ------------------------------------------------------------------ C12

\* A step in which the worker receives a tick flushes the whole buffer,
\* whatever its length; when nothing is reported to have failed, the buffer
\* is empty afterwards, every byte that was pending is on the connection, in
\* order, and the connection is kept.
TimerFlushesAll ==
    last'.op = "tick" =>
        /\ FlushOf(buf, <<>>)
        /\ last'.fails = <<>> =>
              buf' = <<>> /\ wire' = wire \o buf /\ conn' = conn

\* C12: when the flush timer fires, the worker flushes the entire pending
\* buffer, also when it is shorter than BufferSize; after a timer flush whose
\* write succeeds the buffer is empty and every byte that was pending has
\* been written to the connection.
C12_Theorem == [][TimerFlushesAll]_vars

\* C12's case: the only job handed to write so far was shorter than
\* BufferSize, and a timer flush has written it.
C12_Witness ==
    /\ last.op = "tick" /\ last.fails = <<>>
    /\ Len(handed) = 1 /\ fate[handed[1]] = "flushed"
    /\ buf = <<>>
    /\ wire # <<>> /\ Len(wire) < config.BufferSize

\* ------------------------------------------------------------------ C13

\* The place of job j in the order in which the worker encoded the jobs.
EncodedAt(j) == CHOOSE i \in 1..Len(handed) : handed[i] = j

\* Byte a was encoded before byte b: by an earlier write, or earlier by the
\* same write.
EncodedBefore(a, b) ==
    \/ EncodedAt(a[1]) < EncodedAt(b[1])
    \/ a[1] = b[1] /\ a[2] < b[2]

\* Every byte on the wire was encoded, and of any two the one written first
\* was encoded first (so none is there twice).
WireInEncodeOrder ==
    /\ JobsOf(wire) \subseteq {handed[i] : i \in 1..Len(handed)}
    /\ \A i \in 1..Len(wire), k \in 1..Len(wire) :
          i < k => EncodedBefore(wire[i], wire[k])

\* C13: over all flushes and reconnects, the bytes written to the connections
\* are in the order in which they were encoded: no byte is written before one
\* that was encoded earlier, and none is written twice.
C13_Theorem == WireInEncodeOrder

\* C13's case: a write failed after part of a job's bytes, and the bytes of a
\* later job were written in full after the reconnect.
C13_Witness ==
    /\ wire # <<>>
    /\ fate[wire[1][1]] = "dropped"
    /\ \E k \in JobsOf(wire) : k # wire[1][1] /\ fate[k] = "flushed"

\* ------------------------------------------------------------------ C14

\* The jobs accepted and not yet dequeued are the jobs in the queue, each
\* once, and the jobs dequeued are those handed to write: none is lost from
\* the queue, and a rejected job is in neither.
QueueHoldsWaiting ==
    /\ {jobs[i].id : i \in 1..Len(jobs)} = {j \in JobIds : fate[j] = "queued"}
    /\ Len(jobs) = Cardinality({j \in JobIds : fate[j] = "queued"})
    /\ {handed[i] : i \in 1..Len(handed)}
          = {j \in JobIds : fate[j] \notin {"none", "queued"}}

\* Right after a dequeue: the job taken was submitted before every job of
\* its producer that is still waiting (the ids grow with the submissions).
TookOldestOfProducer ==
    last.op = "write" =>
        \A i \in 1..Len(jobs) :
            jobs[i].p = last.p => handed[Len(handed)] < jobs[i].id

QueueWithinCapacity == Len(jobs) <= config.QueueSize

\* A call of Set, Add or Observe ends in exactly one of three ways: the job
\* is queued behind the others and nothing is reported; or the queue is left
\* as it was and one "queue is full" error is reported; or the queue is left
\* as it was and one "queue was closed" error is reported.
OneOutcome ==
    IsEnqueue =>
        \/ /\ jobs' = Append(jobs, jobs'[Len(jobs')])
           /\ jobs'[Len(jobs')].id = submitted'
           /\ last'.fails = <<>>
        \/ /\ jobs' = jobs
           /\ last'.fails = <<Err("full", submitted')>>
        \/ /\ jobs' = jobs
           /\ last'.fails = <<Err("closed", submitted')>>

\* C15 as claimed: the queue never holds more than QueueSize jobs, and every
\* submission is accepted, or rejected with a "full" report, or rejected with
\* a "closed" report, exactly one of the three.
C15_Original == []QueueWithinCapacity /\ [][OneOutcome]_vars

\* ------------------------------------------------------------------ C16

\* Work has arrived: a job is queued or the ticker has fired.
WorkArrived == jobs # <<>> \/ timerC

\* A dial attempt is made only when work has arrived.
DialsOnlyForWork == last'.op = "dial" => WorkArrived

\* The worker processes an event (a job, a tick, the closure) only with a
\* connection, which connect() has returned before.
ConnectsBeforeEvent ==
    last'.op \in {"write", "tick", "final"} => conn = "open"

\* A flush that fails while the worker goes on discards the handle, and the
\* worker is back at the top of its loop, without a connection.
FailedFlushDiscards ==
    (FlushFailed(last') /\ last'.op # "final") =>
        conn' = "nil" /\ wpc' = "loop"

\* C16 as claimed: without a connection the worker dials only once a job or
\* a tick has arrived, and before it processes that event; a failed flush
\* discards the handle, so that the same holds again.
C16_Original ==
    /\ [][DialsOnlyForWork]_vars
    /\ [][ConnectsBeforeEvent]_vars
    /\ [][FailedFlushDiscards]_vars

\* Without a connection the worker is connecting (or has returned): it is
\* at the top of its loop or inside connect(), and its next step, the call of
\* connect() or the next dial, waits for nothing: it can be taken whether or
\* not a job is queued or the ticker has fired.
ConnectsAtOnce ==
    /\ (conn = "nil" /\ wpc # "done") => wpc \in {"loop", "dial", "sleep"}
    /\ wpc = "loop" => conn = "nil" /\ ENABLED Connect
    /\ wpc = "dial" => ENABLED Dial
    /\ wpc = "sleep" => ENABLED Sleep

\* C16, amended: while the worker has no connection it connects before it
\* waits for any event, whether or not work has arrived (so also at the
\* start, with the queue empty and the ticker not yet fired); it processes no
\* job, tick or closure until a dial has succeeded; and a failed flush
\* discards the handle, so that the same holds again.
C16_Amended ==
    /\ []ConnectsAtOnce
    /\ [][ConnectsBeforeEvent]_vars
    /\ [][FailedFlushDiscards]_vars

\* C16's case: after a failed write the worker has dialled again, with the
\* queue empty and no tick in timer.C.
C16_Witness ==
    /\ last.op = "dial"
    /\ ~WorkArrived
    /\ \E j \in JobIds : fate[j] = "dropped" /\ j \in JobsOf(wire)

\* ------------------------------------------------------------------ C17

\* The step has reported an error of the codec.
CodecFailed(l) == \E i \in 1..Len(l.fails) : l.fails[i].kind = "codec"

\* A write whose encode fails reports that one error, for the job it was
\* given, and nothing else; the buffer keeps what it held, followed by what
\* the codec had written of the job, which is not all of it; nothing is
\* written to the connection, the connection is kept as it is, and the
\* worker is back at its select.
CodecFailureIsSkipped ==
    (IsWrite /\ CodecFailed(last')) =>
        LET job == Head(jobs) IN
        /\ last'.fails = <<Err("codec", job.id)>>
        /\ \E k \in 0..(job.len - 1) : buf' = buf \o SubSeq(Encode(job), 1, k)
        /\ Written = <<>>
        /\ conn' = conn /\ openConns' = openConns
        /\ wpc' = "select"
        /\ fate'[job.id] = "dropped"

\* C17: when the codec fails to encode a job, the worker reports the error
\* exactly once through the failure callback, makes no flush for that job
\* (also when the buffer has then reached BufferSize), keeps the connection
\* unchanged and goes on to the next job, tick or closure.
C17_Theorem == [][CodecFailureIsSkipped]_vars

\* C17's case: the codec failed after writing part of a job, the buffer has
\* reached BufferSize and was not flushed, and the worker waits at its select
\* with the connection it had.
C17_Witness ==
    /\ last.op = "write"
    /\ last.fails = <<Err("codec", handed[Len(handed)])>>
    /\ Len(buf) >= config.BufferSize
    /\ wpc = "select" /\ conn = "open"

\* ------------------------------------------------------------------ C18

\* The worker waits at its select only with an open connection, and inside
\* connect() it has none.
SelectsConnected ==
    /\ wpc = "select" => conn = "open" /\ openConns = 1
    /\ InConnect => conn = "nil"

\* A step that takes an event, so every call of write and of flush, is made
\* with an open connection (flushN's branch for conn == nil is not taken), and
\* the buffer changes in no other step.
EventsFindConnection ==
    /\ (IsWrite \/ last'.op \in {"tick", "final"}) => conn = "open"
    /\ buf' # buf => conn = "open"

\* While the worker is inside connect() nothing is dequeued, no tick is
\* taken, the closure is not seen and the buffer is left alone.
ConnectTakesNothing ==
    InConnect =>
        /\ handed' = handed /\ IsPrefix(jobs, jobs')
        /\ timerC => timerC'
        /\ wpc' # "done" /\ join' = join
        /\ buf' = buf /\ wire' = wire

\* C18: whenever the worker takes an event (a job, a tick, the closure) a
\* connection is open, since connect() is called before each wait when there
\* is none; so flushN is never called without a connection, no job is encoded
\* into the buffer while disconnected, and inside connect() the worker
\* dequeues nothing and does not see the closure.
C18_Theorem ==
    /\ []SelectsConnected
    /\ [][EventsFindConnection]_vars
    /\ [][ConnectTakesNothing]_vars

\* C18's case: a write has failed part of the way, the queue has been
\* closed, and the worker, connected again, has taken a further job and still
\* holds the connection.
C18_Witness ==
    /\ last.op = "write"
    /\ closed
    /\ conn = "open"
    /\ \E j \in JobIds : fate[j] = "dropped" /\ j \in JobsOf(wire)

\* ------------------------------------------------------------------ C19

\* At most one connection is open; the handle the worker holds is that of
\* the open connection (so no closed connection is held, and no open one is
\* held by nobody); and none is open once the worker has returned.
HoldsTheOneConnection ==
    /\ openConns \in {0, 1}
    /\ conn = "open" <=> openConns = 1
    /\ wpc = "done" => openConns = 0

\* A step closes at most the one connection the worker holds, and only when
\* a flush on it fails or the worker returns; a dial is made only when no
\* connection is open; and bytes are written only to the open connection.
ClosedOnce ==
    /\ openConns' < openConns =>
          /\ openConns' = openConns - 1
          /\ conn = "open" /\ conn' = "nil"
          /\ FlushFailed(last') \/ (wpc # "done" /\ wpc' = "done")
    /\ openConns' > openConns =>
          /\ openConns = 0 /\ openConns' = 1
          /\ conn = "nil" /\ conn' = "open"
          /\ last'.op = "dial"
    /\ wire' # wire => conn = "open"

\* C19: the worker holds at most one open connection at any time; every
\* connection a dial has returned is closed exactly once, when a flush on it
\* fails or when the worker terminates; no connection is used after it was
\* closed, and none is open after the worker has returned.
C19_Theorem ==
    /\ []HoldsTheOneConnection
    /\ [][ClosedOnce]_vars

\* C19's case: a first connection was closed by a failed write, a second one
\* has carried the bytes of a later job, and the worker has returned.
C19_Witness ==
    /\ wpc = "done"
    /\ wire # <<>>
    /\ fate[wire[1][1]] = "dropped"
    /\ fate[wire[Len(wire)][1]] = "flushed"

\* ------------------------------------------------------------------ C20

\* The buffer b is shorter than BufferSize or holds bytes of one job at most.
Batched(b) == Len(b) < config.BufferSize \/ Cardinality(JobsOf(b)) <= 1

\* After a write whose encode succeeded the buffer is shorter than
\* BufferSize, or holds exactly the bytes of the job written, or is empty.
AfterWrite ==
    \/ Len(buf') < config.BufferSize
    \/ buf' = Encode(Head(jobs))
    \/ buf' = <<>>

\* The step reports a failure of SetWriteDeadline.
DeadlineFailed(l) == Kinds(l) = <<"deadline">>

\* The flush length write passes to flushN, whatever the codec and the
\* connection do, is not above the length of the buffer at that call.
FlushLengthFits ==
    IsWrite =>
        \A enc \in CodecOutcomes(Head(jobs)),
           o \in ConnOutcomes(Len(buf) + Head(jobs).len) :
           LET r == write(conn, buf, Head(jobs), config.BufferSize, enc, o,
                          FALSE)
           IN  r.n <= Len(buf) + enc.k

\* C20 as claimed: after every write whose encode succeeds the buffer is
\* shorter than BufferSize or consists of the bytes of that one job (or is
\* empty); so, unless an encode fails, the buffer never holds the bytes of
\* two or more jobs while it is at or above BufferSize; and the flush length
\* never exceeds the buffer length.
C20_Original ==
    /\ [][(IsWrite /\ ~CodecFailed(last')) => AfterWrite]_vars
    /\ [][(Batched(buf) /\ ~CodecFailed(last')) => Batched(buf')]_vars
    /\ [][FlushLengthFits]_vars

\* C20, amended: the same, except for a write whose flush fails at
\* SetWriteDeadline: that flush removes nothing, so the buffer then holds the
\* earlier bytes followed by the job's, at or above BufferSize, until the
\* next flush.
C20_Amended ==
    /\ [][(IsWrite /\ ~CodecFailed(last')) =>
             IF DeadlineFailed(last') THEN buf' = buf \o Encode(Head(jobs))
                                      ELSE AfterWrite]_vars
    /\ [][(Batched(buf) /\ ~CodecFailed(last') /\ ~DeadlineFailed(last'))
             => Batched(buf')]_vars
    /\ [][FlushLengthFits]_vars

\* C20's case: a write found bytes pending and crossed BufferSize, conn.Write
\* failed on the earlier bytes, and the buffer holds exactly the bytes of the
\* job written, which alone reach BufferSize.
C20_Witness ==
    /\ last.op = "write" /\ Kinds(last) = <<"write">>
    /\ Len(buf) >= config.BufferSize
    /\ buf # <<>> /\ JobsOf(buf) = {handed[Len(handed)]}
    /\ Len(handed) >= 2

=============================================================================
